---- MODULE Spec2Model ----
(***************************************************************************)
(* Model of zelos' memory snapshot plugin                                  *)
(* (src/zelos/ext/plugins/snapshot/snapshot.py, class Snapshotter).        *)
(*                                                                         *)
(* Python integers are unbounded and the plugin compares lengths with      *)
(* 0x100000000 and addresses with 0x80000000, both beyond the integers TLC *)
(* evaluates.  Every address and byte count is therefore a natural number  *)
(* written in base 1000, least significant digit first, without leading    *)
(* zeros (<<>> is 0); Num(<<4, 294, 967, 296>>) is 4294967296.             *)
(*                                                                         *)
(* A Python bytes object is a run-length encoded sequence of runs          *)
(* [b |-> byte, c |-> count], count > 0, adjacent runs of different bytes. *)
(* A base64 str is a sequence of runs [q |-> four characters, n |-> count].*)
(***************************************************************************)
EXTENDS Integers, Sequences, FiniteSets, TLC

\* ------------------------------------------------------------------------
\* Python int arithmetic on base-1000 digit sequences

Radix == 10 * 100

RECURSIVE Reverse(_)
Reverse(s) == IF s = <<>> THEN <<>> ELSE Append(Reverse(Tail(s)), Head(s))

RECURSIVE Norm(_)
Norm(a) ==
    IF a = <<>> THEN <<>>
    ELSE IF a[Len(a)] = 0 THEN Norm(SubSeq(a, 1, Len(a) - 1))
    ELSE a

\* the number whose base-1000 groups, most significant first, are g
Num(g) == Norm(Reverse(g))

Zero == <<>>
One == <<1>>

BLt(a, b) ==
    \/ Len(a) < Len(b)
    \/ /\ Len(a) = Len(b)
       /\ \E i \in 1..Len(a) :
            /\ a[i] < b[i]
            /\ \A j \in (i + 1)..Len(a) : a[j] = b[j]

BLe(a, b) == ~BLt(b, a)

BMin(a, b) == IF BLt(a, b) THEN a ELSE b

RECURSIVE AddC(_, _, _)
AddC(a, b, carry) ==
    IF a = <<>> /\ b = <<>>
    THEN (IF carry = 0 THEN <<>> ELSE <<carry>>)
    ELSE LET x == IF a = <<>> THEN 0 ELSE Head(a)
             y == IF b = <<>> THEN 0 ELSE Head(b)
             s == x + y + carry
         IN  <<s % Radix>> \o
             AddC(IF a = <<>> THEN <<>> ELSE Tail(a),
                  IF b = <<>> THEN <<>> ELSE Tail(b),
                  s \div Radix)

BAdd(a, b) == AddC(a, b, 0)

\* a - b, for b <= a
RECURSIVE SubC(_, _, _)
SubC(a, b, borrow) ==
    IF a = <<>> THEN <<>>
    ELSE LET y == IF b = <<>> THEN 0 ELSE Head(b)
             d == Head(a) - y - borrow
         IN  <<(d + Radix) % Radix>> \o
             SubC(Tail(a),
                  IF b = <<>> THEN <<>> ELSE Tail(b),
                  IF d < 0 THEN 1 ELSE 0)

BSub(a, b) == Norm(SubC(a, b, 0))

\* a * k for a digit k
RECURSIVE MulC(_, _, _)
MulC(a, k, carry) ==
    IF a = <<>>
    THEN (IF carry = 0 THEN <<>> ELSE <<carry>>)
    ELSE LET p == Head(a) * k + carry
         IN  <<p % Radix>> \o MulC(Tail(a), k, p \div Radix)

RECURSIVE BMul(_, _)
BMul(a, b) ==
    IF a = <<>> \/ b = <<>> THEN <<>>
    ELSE LET rest == BMul(a, Tail(b))
         IN  BAdd(Norm(MulC(a, Head(b), 0)),
                  IF rest = <<>> THEN <<>> ELSE <<0>> \o rest)

\* a % k and a // k for 0 < k < Radix
RECURSIVE ModSmall(_, _)
ModSmall(a, k) ==
    IF a = <<>> THEN 0
    ELSE (Head(a) + Radix * ModSmall(Tail(a), k)) % k

RECURSIVE DivC(_, _)
DivC(a, k) ==
    IF a = <<>> THEN <<>>
    ELSE <<(Head(a) + Radix * ModSmall(Tail(a), k)) \div k>> \o DivC(Tail(a), k)

DivSmall(a, k) == Norm(DivC(a, k))

\* a small natural as a digit sequence
RECURSIVE FromInt(_)
FromInt(n) == IF n = 0 THEN <<>> ELSE <<n % Radix>> \o FromInt(n \div Radix)

\* ------------------------------------------------------------------------
\* Python bytes: sequences of runs [b |-> byte, c |-> count]

Run(b, c) == [b |-> b, c |-> c]

\* the canonical form: no empty run, adjacent runs of different bytes
RECURSIVE NormRuns(_)
NormRuns(d) ==
    IF d = <<>> THEN <<>>
    ELSE IF Head(d).c = Zero THEN NormRuns(Tail(d))
    ELSE LET rest == NormRuns(Tail(d))
         IN  IF rest # <<>> /\ Head(rest).b = Head(d).b
             THEN <<Run(Head(d).b, BAdd(Head(d).c, Head(rest).c))>> \o Tail(rest)
             ELSE <<Head(d)>> \o rest

\* len(data)
RECURSIVE LenBytes(_)
LenBytes(d) == IF d = <<>> THEN Zero ELSE BAdd(Head(d).c, LenBytes(Tail(d)))

\* data[:k] for 0 <= k
RECURSIVE Take(_, _)
Take(d, k) ==
    IF k = Zero \/ d = <<>> THEN <<>>
    ELSE IF BLe(Head(d).c, k)
         THEN <<Head(d)>> \o Take(Tail(d), BSub(k, Head(d).c))
         ELSE <<Run(Head(d).b, k)>>

\* The number of bytes of data[: current_offset - HEAP_BASE] under Python's
\* slice rules: a stop beyond the end is clipped to len(data), a negative
\* stop counts from the end and is clipped to 0.
SliceStop(len, current_offset, heap_base) ==
    IF BLe(heap_base, current_offset)
    THEN BMin(BSub(current_offset, heap_base), len)
    ELSE LET back == BSub(heap_base, current_offset)
         IN  IF BLt(len, back) THEN Zero ELSE BSub(len, back)

\* faulty variant: the heap is dumped whole
TruncateHeap_Whole(data, heap) == data

\* data[: self.memory.heap.current_offset - self.memory.HEAP_BASE]
TruncateHeap(data, heap) ==
    Take(data, SliceStop(LenBytes(data), heap.current_offset, heap.HEAP_BASE))

\* ------------------------------------------------------------------------
\* base64.b64encode(data).decode(): a str, as runs [q |-> 4 chars, n |-> count]

Alphabet == "ABCDEFGHIJKLMNOPQRSTUVWXYZabcdefghijklmnopqrstuvwxyz0123456789+/"

Ch(i) == SubSeq(Alphabet, i + 1, i + 1)

Idx(c) == CHOOSE i \in 0..63 : Ch(i) = c

\* one to three bytes as four characters, padded with "="
Quad(bs) ==
    LET n  == Len(bs)
        b1 == bs[1]
        b2 == IF n >= 2 THEN bs[2] ELSE 0
        b3 == IF n >= 3 THEN bs[3] ELSE 0
    IN  Ch(b1 \div 4) \o Ch((b1 % 4) * 16 + b2 \div 16)
        \o (IF n >= 2 THEN Ch((b2 % 16) * 4 + b3 \div 64) ELSE "=")
        \o (IF n >= 3 THEN Ch(b3 % 64) ELSE "=")

RECURSIVE NormText(_)
NormText(t) ==
    IF t = <<>> THEN <<>>
    ELSE LET rest == NormText(Tail(t))
         IN  IF rest # <<>> /\ Head(rest).q = Head(t).q
             THEN <<[q |-> Head(t).q, n |-> BAdd(Head(t).n, Head(rest).n)]>>
                  \o Tail(rest)
             ELSE <<Head(t)>> \o rest

\* pend: the bytes of the group being filled (fewer than three)
RECURSIVE Enc(_, _)
Enc(d, pend) ==
    IF d = <<>>
    THEN (IF pend = <<>> THEN <<>> ELSE <<[q |-> Quad(pend), n |-> One]>>)
    ELSE LET r == Head(d)
         IN  IF pend = <<>>
             THEN LET k == DivSmall(r.c, 3)
                      m == ModSmall(r.c, 3)
                  IN  (IF k = Zero THEN <<>>
                       ELSE <<[q |-> Quad(<<r.b, r.b, r.b>>), n |-> k]>>)
                      \o Enc(Tail(d), [i \in 1..m |-> r.b])
             ELSE LET p2   == Append(pend, r.b)
                      rest == IF r.c = One THEN Tail(d)
                              ELSE <<Run(r.b, BSub(r.c, One))>> \o Tail(d)
                  IN  IF Len(p2) = 3
                      THEN <<[q |-> Quad(p2), n |-> One]>> \o Enc(rest, <<>>)
                      ELSE Enc(rest, p2)

b64encode(data) == NormText(Enc(data, <<>>))

\* the bytes four characters stand for
UnQuad(q) ==
    LET c(i) == SubSeq(q, i, i)
        s1 == Idx(c(1))
        s2 == Idx(c(2))
        b1 == s1 * 4 + s2 \div 16
    IN  IF c(3) = "=" THEN <<b1>>
        ELSE LET s3 == Idx(c(3))
                 b2 == (s2 % 16) * 16 + s3 \div 4
             IN  IF c(4) = "=" THEN <<b1, b2>>
                 ELSE <<b1, b2, (s3 % 4) * 64 + Idx(c(4))>>

RECURSIVE Repeat(_, _)
Repeat(d, n) == IF n = Zero THEN <<>> ELSE d \o Repeat(d, BSub(n, One))

RECURSIVE Dec(_)
Dec(t) ==
    IF t = <<>> THEN <<>>
    ELSE LET bs == UnQuad(Head(t).q)
             n  == Head(t).n
         IN  (IF \A i \in 1..Len(bs) : bs[i] = bs[1]
              THEN <<Run(bs[1], BMul(FromInt(Len(bs)), n))>>
              ELSE Repeat([i \in 1..Len(bs) |-> Run(bs[i], One)], n))
             \o Dec(Tail(t))

\* base64.b64decode(text): what a reader of the artifact gets back
b64decode(text) == NormRuns(Dec(text))

\* ------------------------------------------------------------------------
\* Snapshotter._bad_section

\* 0x100000000
MAX_SECTION_SIZE == Num(<<4, 294, 967, 296>>)

\* 0.999999 = ZERO_PCT_NUM / ZERO_PCT_DEN
ZERO_PCT_NUM == Num(<<999, 999>>)
ZERO_PCT_DEN == Num(<<1, 0, 0>>)

\* num in percent_zeros: the number of bytes c with c == 0
RECURSIVE CountZeros(_)
CountZeros(d) ==
    IF d = <<>> THEN Zero
    ELSE BAdd(IF Head(d).b = 0 THEN Head(d).c ELSE Zero, CountZeros(Tail(d)))

\* faulty variant: >= for >
MostlyZeros_AtLeast(data) ==
    BLe(BMul(ZERO_PCT_NUM, LenBytes(data)), BMul(CountZeros(data), ZERO_PCT_DEN))

\* percent_zeros(data) > 0.999999, for len(data) > 0:
\*   num / len > 999999 / 1000000  <=>  num * 1000000 > 999999 * len
\* (the quotient is a double; it differs from the exact fraction by less
\* than 2^-53, which cannot change the comparison for len(data) < 10^9, and
\* any longer data in this model is either rejected by the size test or is
\* far from the threshold)
MostlyZeros(data) ==
    BLt(BMul(ZERO_PCT_NUM, LenBytes(data)), BMul(CountZeros(data), ZERO_PCT_DEN))

\* faulty variant: nothing is filtered
bad_section_Never(data) == FALSE

bad_section(data) ==
    IF BLt(MAX_SECTION_SIZE, LenBytes(data)) THEN TRUE
    ELSE IF MostlyZeros(data) THEN TRUE
    ELSE FALSE

\* ------------------------------------------------------------------------
\* Strings

\* sub in s
Contains(sub, s) ==
    \E i \in 1..(Len(s) - Len(sub) + 1) : SubSeq(s, i, i + Len(sub) - 1) = sub

\* s.split(" ")
RECURSIVE Split(_)
Split(s) ==
    IF ~Contains(" ", s) THEN <<s>>
    ELSE LET i == CHOOSE k \in 1..Len(s) :
                    /\ SubSeq(s, k, k) = " "
                    /\ \A j \in 1..(k - 1) : SubSeq(s, j, j) # " "
         IN  <<SubSeq(s, 1, i - 1)>> \o Split(SubSeq(s, i + 1, Len(s)))

\* ------------------------------------------------------------------------
\* The emulated process, as snapshot() sees it

VARIABLES
    mem,          \* address |-> [size, prot, data, entry]: the regions of
                  \*   emu.mem_regions(), their bytes, and the directory entry
                  \*   memory.get_region(address) as a set of at most one
                  \*   [kind, name]
    heap,         \* [current_offset, HEAP_BASE] of self.memory
    entry_point,  \* z.main_module.EntryPoint
    pc,           \* "idle", "classifying", "returned", "done", "aborted"
    caller,       \* "api": snapshot() called directly; "closure": by the hook
    outfile,      \* the argument of snapshot(): "None" or "stream"
    todo,         \* the addresses the for loop has still to visit, in order
    out_map,      \* the document under construction (a dict)
    sink,         \* the output file or stream
    printed,      \* the lines printed, one per region visited
    reads         \* the addresses memory.read was called with, in order

vars == <<mem, heap, entry_point, pc, caller, outfile, todo, out_map, sink,
          printed, reads>>

\* 0x80000000
GDT_ADDRESS == Num(<<2, 147, 483, 648>>)

\* ascending address order of sorted(regions)
RegionLess(a, b) == BLt(a, b)

RECURSIVE SortAddresses(_)
SortAddresses(S) ==
    IF S = {} THEN <<>>
    ELSE LET least == CHOOSE a \in S : \A b \in S \ {a} : RegionLess(a, b)
         IN  <<least>> \o SortAddresses(S \ {least})

\* faulty variant: the regions are visited in descending order
sorted_regions_Descending == Reverse(SortAddresses(DOMAIN mem))

\* sorted(self.emu.mem_regions())
sorted_regions == SortAddresses(DOMAIN mem)

\* self.memory.read(addr, size)
memory_read(addr, size) == Take(mem[addr].data, size)

\* the three inclusion conditions
IsMain(kind, name) == kind = "main" \/ name = "main"

\* faulty variant: the name is not examined
IsStack_AnyName(kind, name) == kind = "stack"

IsStack(kind, name) == kind = "stack" /\ ~Contains("dll_main", name)

\* faulty variant: stacks fall under the third rule too
IsHeapVallocSection_AndStack(kind, name) ==
    \/ (kind = "heap" /\ name # "heap")
    \/ kind = "valloc"
    \/ kind = "section"
    \/ kind = "stack"

IsHeapVallocSection(kind, name) ==
    \/ (kind = "heap" /\ name # "heap")
    \/ kind = "valloc"
    \/ kind = "section"

\* faulty variant: the base address follows the latest match
SetBaseAddress_Overwrite(om, addr) ==
    ("base_address" :> addr) @@ [k \in DOMAIN om \ {"base_address"} |-> om[k]]

\* if "base_address" not in out_map: out_map["base_address"] = addr
SetBaseAddress(om, addr) ==
    IF "base_address" \in DOMAIN om THEN om ELSE ("base_address" :> addr) @@ om

\* The locals of one pass of the loop body.
Locals(om) ==
    [out_map |-> om, dumped |-> FALSE, section |-> <<>>, data |-> <<>>,
     nreads |-> 0]

\* Dump main binary
DumpMain(l, addr, size, perm, kind, name) ==
    IF IsMain(kind, name)
    THEN LET tmpname      == Split(name)
             section_name == IF Len(tmpname) > 1 THEN tmpname[2] ELSE name
             data         == memory_read(addr, size)
         IN  [out_map |-> SetBaseAddress(l.out_map, addr),
              section |-> [name        |-> section_name,
                           address     |-> addr,
                           permissions |-> IF section_name = ".pe" THEN 1 ELSE perm,
                           data        |-> b64encode(data)],
              data    |-> data,
              dumped  |-> TRUE,
              nreads  |-> l.nreads + 1]
    ELSE l

\* faulty variant: the stack rule does not set the base address
DumpStack_NoBase(l, addr, size, perm, kind, name) ==
    IF kind = "stack" /\ ~Contains("dll_main", name)
    THEN LET data == Take(mem[addr].data, size)
         IN  [out_map |-> l.out_map,
              section |-> [name        |-> "stack_" \o name,
                           address     |-> addr,
                           permissions |-> perm,
                           data        |-> b64encode(data)],
              data    |-> data,
              dumped  |-> TRUE,
              nreads  |-> l.nreads + 1]
    ELSE l

\* Dump main and thread stacks binary
DumpStack(l, addr, size, perm, kind, name) ==
    IF IsStack(kind, name)
    THEN LET data == memory_read(addr, size)
         IN  [out_map |-> SetBaseAddress(l.out_map, addr),
              section |-> [name        |-> "stack_" \o name,
                           address     |-> addr,
                           permissions |-> perm,
                           data        |-> b64encode(data)],
              data    |-> data,
              dumped  |-> TRUE,
              nreads  |-> l.nreads + 1]
    ELSE l

\* Dump heap, sections, virtualalloc'd regions
DumpHeapVallocSection(l, addr, size, perm, kind, name) ==
    IF IsHeapVallocSection(kind, name)
    THEN LET data == memory_read(addr, size)
         IN  [out_map |-> SetBaseAddress(l.out_map, addr),
              section |-> [name        |-> kind \o "_" \o name,
                           address     |-> addr,
                           permissions |-> perm,
                           data        |-> IF kind = "heap" /\ name = "main_heap"
                                           THEN b64encode(TruncateHeap(data, heap))
                                           ELSE b64encode(data)],
              data    |-> data,
              dumped  |-> TRUE,
              nreads  |-> l.nreads + 1]
    ELSE l

\* name and kind as the loop body sets them from the directory
KindOf(addr) ==
    IF mem[addr].entry # {} THEN (CHOOSE e \in mem[addr].entry : TRUE).kind
    ELSE "<unk>"

NameOf(addr) ==
    IF mem[addr].entry # {} THEN (CHOOSE e \in mem[addr].entry : TRUE).name
    ELSE "<unk>"

\* The three rules in turn, then the noise/size filter on the data read last.
LoopBody(om, addr) ==
    LET size == mem[addr].size
        perm == mem[addr].prot
        name == NameOf(addr)
        kind == KindOf(addr)
        l1   == DumpMain(Locals(om), addr, size, perm, kind, name)
        l2   == DumpStack(l1, addr, size, perm, kind, name)
        l3   == DumpHeapVallocSection(l2, addr, size, perm, kind, name)
    IN  IF addr = GDT_ADDRESS THEN Locals(om)
        ELSE IF l3.dumped /\ bad_section(l3.data)
             THEN [l3 EXCEPT !.dumped = FALSE]
             ELSE l3

\* how many of the three rules a region at addr matches (0 for the GDT, which
\* the loop skips before any rule)
RulesMatched(addr) ==
    IF addr = GDT_ADDRESS THEN 0
    ELSE (IF IsMain(KindOf(addr), NameOf(addr)) THEN 1 ELSE 0)
       + (IF IsStack(KindOf(addr), NameOf(addr)) THEN 1 ELSE 0)
       + (IF IsHeapVallocSection(KindOf(addr), NameOf(addr)) THEN 1 ELSE 0)

\* ------------------------------------------------------------------------
\* Operations

NoSink == [handle |-> "none", owner |-> "none", artifact |-> "absent", writes |-> <<>>]

\* out_map as snapshot() first builds it
NewOutMap ==
    ("entrypoint" :> entry_point) @@ ("sections" :> <<>>)
    @@ ("functions" :> <<>>) @@ ("comments" :> <<>>)

\* snapshot(outfile) called directly: with no outfile, or with a stream the
\* caller has opened
SnapshotCall(arg) ==
    /\ pc = "idle"
    /\ pc' = "classifying"
    /\ caller' = "api"
    /\ outfile' = arg
    /\ sink' = IF arg = "None" THEN sink
               ELSE [handle |-> "open", owner |-> "caller", artifact |-> "empty",
                     writes |-> <<>>]
    /\ out_map' = NewOutMap
    /\ todo' = sorted_regions
    /\ UNCHANGED <<mem, heap, entry_point, printed, reads>>

\* the close hook: open(f"{original_file_name}.zmu", "w") and snapshot(f)
Closure ==
    /\ pc = "idle"
    /\ pc' = "classifying"
    /\ caller' = "closure"
    /\ outfile' = "stream"
    /\ sink' = [handle |-> "open", owner |-> "closure", artifact |-> "empty",
                writes |-> <<>>]
    /\ out_map' = NewOutMap
    /\ todo' = sorted_regions
    /\ UNCHANGED <<mem, heap, entry_point, printed, reads>>

\* one pass of "for region in sorted(regions)", every read succeeding
ClassifyRegion ==
    /\ pc = "classifying"
    /\ todo # <<>>
    /\ LET addr == Head(todo)
           l    == LoopBody(out_map, addr)
       IN  /\ out_map' = IF l.dumped
                         THEN [l.out_map EXCEPT !.sections = Append(@, l.section)]
                         ELSE l.out_map
           /\ printed' = Append(printed, [address |-> addr, size |-> mem[addr].size,
                                          perm |-> mem[addr].prot,
                                          kind |-> KindOf(addr), name |-> NameOf(addr),
                                          bold |-> l.dumped])
           /\ reads' = reads \o [i \in 1..l.nreads |-> addr]
    /\ todo' = Tail(todo)
    /\ UNCHANGED <<mem, heap, entry_point, pc, caller, outfile, sink>>

\* one pass in which a memory.read raises: the exception leaves snapshot(),
\* and the closure's with statement closes the file it opened
ReadFailure ==
    /\ pc = "classifying"
    /\ todo # <<>>
    /\ RulesMatched(Head(todo)) > 0
    /\ \E k \in 1..RulesMatched(Head(todo)) :
          reads' = reads \o [i \in 1..k |-> Head(todo)]
    /\ out_map' = SetBaseAddress(out_map, Head(todo))
    /\ pc' = "aborted"
    /\ sink' = IF caller = "closure" THEN [sink EXCEPT !.handle = "closed"] ELSE sink
    /\ UNCHANGED <<mem, heap, entry_point, caller, outfile, todo, printed>>

\* faulty variant: the default file is written but never closed
WriteArtifact_Leak ==
    /\ pc = "classifying"
    /\ todo = <<>>
    /\ sink' = [handle |-> IF outfile = "None" THEN "open" ELSE sink.handle,
                owner |-> IF outfile = "None" THEN "snapshot" ELSE sink.owner,
                artifact |-> "document",
                writes |-> Append(sink.writes, [header |-> "DISAS\n", doc |-> out_map])]
    /\ pc' = "returned"
    /\ UNCHANGED <<mem, heap, entry_point, caller, outfile, todo, out_map,
                   printed, reads>>

\* The loop is over: the document is serialised and written, to
\* "memory_dump.zmu" (opened, written and closed by the with statement) or
\* to outfile.  The tracer's comments and called functions play no part in
\* the properties checked here and are empty.
WriteArtifact ==
    /\ pc = "classifying"
    /\ todo = <<>>
    /\ sink' = IF outfile = "None"
               THEN [handle |-> "closed", owner |-> "snapshot",
                     artifact |-> "document",
                     writes |-> <<[header |-> "DISAS\n", doc |-> out_map]>>]
               ELSE [sink EXCEPT !.artifact = "document",
                                 !.writes = Append(@, [header |-> "DISAS\n",
                                                        doc |-> out_map])]
    /\ pc' = "returned"
    /\ UNCHANGED <<mem, heap, entry_point, caller, outfile, todo, out_map,
                   printed, reads>>

\* snapshot(f) has returned to the closure: the with statement closes f
ClosureExit ==
    /\ pc = "returned"
    /\ caller = "closure"
    /\ sink' = [sink EXCEPT !.handle = "closed"]
    /\ pc' = "done"
    /\ UNCHANGED <<mem, heap, entry_point, caller, outfile, todo, out_map,
                   printed, reads>>

Next ==
    \/ \E arg \in {"None", "stream"} : SnapshotCall(arg)
    \/ Closure
    \/ ClassifyRegion
    \/ ReadFailure
    \/ WriteArtifact
    \/ ClosureExit

\* ------------------------------------------------------------------------
\* Initial states

MaxRegions == 2

MaxHeapUsed == 4

\* the heap base of the emulated process (0x90000000)
HeapBase == Num(<<2, 415, 919, 104>>)

LowAddress == Num(<<4, 96>>)

MidAddress == Num(<<65, 536>>)

Entry(kind, name) == {[kind |-> kind, name |-> name]}

Entries ==
    { {},
      Entry("main", "main .pe"), Entry("main", "main"),
      Entry("stack", "main"), Entry("stack", "thread"),
      Entry("stack", "dll_main_thread"),
      Entry("heap", "heap"), Entry("heap", "main_heap"), Entry("heap", "main"),
      Entry("valloc", "valloc"), Entry("section", ".data") }

\* region contents
Bytes001 == <<Run(0, <<2>>), Run(1, One)>>

Bytes100 == <<Run(1, One), Run(0, <<2>>)>>

Zeros4 == <<Run(0, <<4>>)>>

\* 999999 zero bytes and one other: zero fraction exactly 0.999999
AtThreshold == <<Run(0, Num(<<999, 999>>)), Run(1, One)>>

\* 1000000 zero bytes and one other: zero fraction just above 0.999999
OverThreshold == <<Run(0, Num(<<1, 0, 0>>)), Run(1, One)>>

\* 0x100000000 bytes, none zero
FourGiB == <<Run(1, MAX_SECTION_SIZE)>>

\* 0x100000001 bytes, none zero
OverFourGiB == <<Run(1, BAdd(MAX_SECTION_SIZE, One))>>

RegionsOver(E, C) ==
    { [size |-> LenBytes(d), prot |-> 7, data |-> d, entry |-> e] :
        <<e, d>> \in E \X C }

\* at most MaxRegions regions at addresses of Addrs, directory entries of E,
\* contents of C (every region has size > 0), and a heap that has used one of
\* Used bytes (current_offset never falls below HEAP_BASE)
InitWith(Addrs, E, C, Used) ==
    /\ \E A \in SUBSET Addrs :
          /\ Cardinality(A) <= MaxRegions
          /\ mem \in [A -> RegionsOver(E, C)]
    /\ \E k \in Used :
          heap = [current_offset |-> BAdd(HeapBase, FromInt(k)),
                  HEAP_BASE |-> HeapBase]
    /\ entry_point = LowAddress
    /\ pc = "idle"
    /\ caller = "api"
    /\ outfile = "None"
    /\ todo = <<>>
    /\ out_map = <<>>
    /\ sink = NoSink
    /\ printed = <<>>
    /\ reads = <<>>

\* every kind of directory entry, around the GDT address
Init ==
    InitWith({LowAddress, GDT_ADDRESS, HeapBase}, Entries, {Bytes001, Zeros4}, {2})

Spec == Init /\ [][Next]_vars

\* every kind of content, for the noise/size filter
InitFilter ==
    InitWith({LowAddress, MidAddress, HeapBase},
             { Entry("main", "main .pe"), Entry("stack", "main"),
               Entry("heap", "main_heap"), Entry("section", ".data"),
               Entry("heap", "heap") },
             { Bytes001, Zeros4, AtThreshold, OverThreshold, FourGiB, OverFourGiB },
             {2})

SpecFilter == InitFilter /\ [][Next]_vars

\* heaps used from 0 to MaxHeapUsed bytes, over regions of 3 and 4 bytes
InitHeap ==
    InitWith({LowAddress, MidAddress, HeapBase},
             { Entry("heap", "main_heap"), Entry("heap", "heap"),
               Entry("section", ".data") },
             { Bytes001, Bytes100, Zeros4 },
             0..MaxHeapUsed)

SpecHeap == InitHeap /\ [][Next]_vars

\* ------------------------------------------------------------------------
\* Properties

Sections == IF "sections" \in DOMAIN out_map THEN out_map.sections ELSE <<>>

SectionAddresses == {Sections[i].address : i \in DOMAIN Sections}

HasBaseAddress == "base_address" \in DOMAIN out_map

Visited == {printed[i].address : i \in DOMAIN printed}

\* snapshot() has run to its end
Completed == pc \in {"returned", "done"}

\* the three inclusion conditions, as the specification states them
Cond1(kind, name) == kind = "main" \/ name = "main"

Cond2(kind, name) == kind = "stack" /\ ~Contains("dll_main", name)

Cond3(kind, name) ==
    (kind = "heap" /\ name # "heap") \/ kind = "valloc" \/ kind = "section"

\* the directory's (kind, name) of the region at a satisfies a condition
Included(a) ==
    \E e \in mem[a].entry :
        Cond1(e.kind, e.name) \/ Cond2(e.kind, e.name) \/ Cond3(e.kind, e.name)

CondCount(a) ==
    Cardinality({ n \in 1..3 : \E e \in mem[a].entry :
                     \/ n = 1 /\ Cond1(e.kind, e.name)
                     \/ n = 2 /\ Cond2(e.kind, e.name)
                     \/ n = 3 /\ Cond3(e.kind, e.name) })

IsMainHeap(a) == mem[a].entry = Entry("heap", "main_heap")

\* the bytes a reader of the artifact decodes from section i
Emitted(i) == b64decode(Sections[i].data)

AllZero(d) == \A i \in DOMAIN d : d[i].b = 0

TooLarge(d) == BLt(Num(<<4, 294, 967, 296>>), LenBytes(d))

\* zeros / len > 999999 / 1000000
ZeroFractionExceeds(d) ==
    BLt(BMul(Num(<<999, 999>>), LenBytes(d)), BMul(CountZeros(d), Num(<<1, 0, 0>>)))

HeapUsed == BSub(heap.current_offset, heap.HEAP_BASE)

\* C1 (as stated): every section of a "heap"/"main_heap" region carries
\* exactly current_offset - HEAP_BASE bytes, and never the region's full size.
C1_LengthIsHeapUsed ==
    \A i \in DOMAIN Sections :
        IsMainHeap(Sections[i].address) =>
            /\ LenBytes(Emitted(i)) = HeapUsed
            /\ LenBytes(Emitted(i)) # mem[Sections[i].address].size

\* C1 (amended): every section of a "heap"/"main_heap" region carries the
\* first min(current_offset - HEAP_BASE, region size) bytes of the region:
\* exactly current_offset - HEAP_BASE bytes when that is at most the region's
\* size, and the region's full size when it is the size or more.
C1_LengthIsClippedHeapUsed ==
    \A i \in DOMAIN Sections :
        LET a == Sections[i].address
        IN  IsMainHeap(a) =>
              /\ BLe(HeapUsed, mem[a].size) => LenBytes(Emitted(i)) = HeapUsed
              /\ BLe(mem[a].size, HeapUsed) => LenBytes(Emitted(i)) = mem[a].size
              /\ Emitted(i) = Take(mem[a].data, LenBytes(Emitted(i)))

C1_Witness ==
    \E i \in DOMAIN Sections :
        /\ IsMainHeap(Sections[i].address)
        /\ HeapUsed # Zero
        /\ BLt(HeapUsed, mem[Sections[i].address].size)
        /\ LenBytes(Emitted(i)) = HeapUsed

\* the regions other than the GDT whose (kind, name) satisfies a condition
Qualifying(S) == {a \in S : a # GDT_ADDRESS /\ Included(a)}

Rejected(d) == TooLarge(d) \/ ZeroFractionExceeds(d)

Occurrences(s, a) == Cardinality({i \in DOMAIN s : s[i] = a})

\* C2 (as stated): after snapshot() the base address is the lowest address
\* among the regions whose (kind, name) satisfies an inclusion condition, and
\* is absent if there is none.
C2_FirstMatchingRegion ==
    Completed =>
        LET Q == {a \in DOMAIN mem : Included(a)}
        IN  IF Q = {} THEN ~HasBaseAddress
            ELSE /\ HasBaseAddress
                 /\ out_map.base_address \in Q
                 /\ \A b \in Q : BLe(out_map.base_address, b)

C2_BaseIsFirstQualifying ==
    pc \in {"classifying", "returned", "done"} =>
        /\ LET Q == Qualifying(Visited)
           IN  IF Q = {} THEN ~HasBaseAddress
               ELSE /\ HasBaseAddress
                    /\ out_map.base_address \in Q
                    /\ \A b \in Q : BLe(out_map.base_address, b)
        /\ Completed => Visited = DOMAIN mem

C2_SetOnce ==
    HasBaseAddress =>
        /\ "base_address" \in DOMAIN out_map'
        /\ out_map'.base_address = out_map.base_address

\* C2 (amended): throughout snapshot() the base address is the lowest address
\* among the regions visited so far that are not at 0x80000000 and whose
\* (kind, name) satisfies an inclusion condition, it is absent while there is
\* none, every region has been visited when snapshot() completes, and once
\* set no step changes or removes it.
C2_FirstQualifyingRegion == [](C2_BaseIsFirstQualifying) /\ [][C2_SetOnce]_vars

C2_Witness ==
    /\ Completed
    /\ GDT_ADDRESS \in DOMAIN mem
    /\ Included(GDT_ADDRESS)
    /\ ~Rejected(mem[GDT_ADDRESS].data)
    /\ HasBaseAddress
    /\ BLt(GDT_ADDRESS, out_map.base_address)

\* C3 (as stated): in a completed document the base address is present only
\* if sections is not empty, and is then the address of the first section.
C3_BaseIsFirstSection ==
    Completed =>
        (HasBaseAddress =>
            /\ Sections # <<>>
            /\ out_map.base_address = Sections[1].address)

\* C3 (amended): in a completed document the base address is present exactly
\* if some region other than the one at 0x80000000 satisfied an inclusion
\* condition, whether or not the filter then rejected it; if sections is not
\* empty the base address is present and no higher than the first section's
\* address; and it is the first section's address whenever the region at the
\* base address passed the filter.
C3_BaseIsFirstMatch ==
    Completed =>
        /\ HasBaseAddress <=> Qualifying(DOMAIN mem) # {}
        /\ Sections # <<>> =>
              /\ HasBaseAddress
              /\ BLe(out_map.base_address, Sections[1].address)
        /\ HasBaseAddress =>
              /\ out_map.base_address \in DOMAIN mem
              /\ ~Rejected(mem[out_map.base_address].data) =>
                    /\ Sections # <<>>
                    /\ Sections[1].address = out_map.base_address

C3_Witness ==
    /\ Completed
    /\ HasBaseAddress
    /\ Sections # <<>>
    /\ BLt(out_map.base_address, Sections[1].address)

\* C4: a region that has been visited and whose data was read is absent from
\* sections if its data is longer than 0x100000000 bytes or its fraction of
\* zero bytes exceeds 0.999999, whatever rule read it, and present otherwise.
C4_FilterDecidesPresence ==
    \A a \in Visited :
        Occurrences(reads, a) > 0 =>
            (a \in SectionAddresses <=> ~Rejected(mem[a].data))

C4_Witness ==
    \E a, b \in Visited :
        /\ Occurrences(reads, a) > 0
        /\ TooLarge(mem[a].data)
        /\ a \notin SectionAddresses
        /\ Occurrences(reads, b) > 0
        /\ ZeroFractionExceeds(mem[b].data)
        /\ ~AllZero(mem[b].data)
        /\ b \notin SectionAddresses

\* C5: every section comes from a region that is not at 0x80000000, has a
\* directory entry and satisfies an inclusion condition; a "stack" region
\* whose name contains "dll_main" and the "heap" region named "heap" never
\* give a section.
C5_OnlyIncludedRegions ==
    \A i \in DOMAIN Sections :
        LET a == Sections[i].address
        IN  /\ a \in DOMAIN mem
            /\ a # Num(<<2, 147, 483, 648>>)
            /\ mem[a].entry # {}
            /\ Included(a)
            /\ \A e \in mem[a].entry :
                  /\ ~(e.kind = "stack" /\ Contains("dll_main", e.name))
                  /\ ~(e.kind = "heap" /\ e.name = "heap")

C5_Witness ==
    /\ Completed
    /\ Sections # <<>>
    /\ GDT_ADDRESS \in Visited
    /\ Included(GDT_ADDRESS)
    /\ ~Rejected(mem[GDT_ADDRESS].data)
    /\ GDT_ADDRESS \notin SectionAddresses

\* C6: when a memory read fails the sink has received no write, and a sink
\* that the plugin itself opens (the default file, the hook's file) has left
\* no artifact behind, not even an empty one.
C6_NoArtifactAfterReadFailure ==
    pc = "aborted" =>
        /\ sink.writes = <<>>
        /\ sink.owner # "caller" => sink.artifact = "absent"

\* C7 (as stated): when the invocation is over, normally or by an error (for
\* the hook: when its with statement has been left), the sink has been written
\* exactly once and is released.
C7_WrittenOnceAndReleased ==
    LET over == \/ (caller = "api" /\ pc \in {"returned", "aborted"})
                \/ (caller = "closure" /\ pc \in {"done", "aborted"})
    IN  over => (Len(sink.writes) = 1 /\ sink.handle = "closed")

\* C7 (amended): the sink is written at most once, and only after every
\* region has been classified, with the assembled document; it has been
\* written exactly once when snapshot() completes and never when a region
\* read fails.  The default file is opened only for that write and is closed
\* when snapshot() returns; the hook's file is closed by the hook once
\* snapshot() has returned or raised; a caller-supplied sink is neither
\* opened nor closed by snapshot().
C7_WrittenOnceReleasedIfOwned ==
    /\ Len(sink.writes) <= 1
    /\ sink.writes # <<>> =>
          /\ Completed
          /\ todo = <<>>
          /\ Visited = DOMAIN mem
          /\ sink.writes[1].doc = out_map
    /\ Completed => Len(sink.writes) = 1
    /\ pc = "aborted" => sink.writes = <<>>
    /\ (outfile = "None" /\ pc \in {"classifying", "aborted"}) => sink.handle = "none"
    /\ (outfile = "None" /\ Completed) => (sink.handle = "closed" /\ sink.owner = "snapshot")
    /\ (caller = "closure" /\ pc \in {"done", "aborted"}) => sink.handle = "closed"
    /\ sink.owner = "caller" => sink.handle = "open"

C7_Witness ==
    /\ pc = "returned"
    /\ outfile = "None"
    /\ sink.handle = "closed"
    /\ Len(sink.writes) = 1
    /\ Len(sink.writes[1].doc.sections) = 2

\* C8 (as stated): no (kind, name) satisfies more than one of the three
\* conditions, and no region is read more than once.
C8_ConditionsDisjoint ==
    \A a \in DOMAIN mem :
        /\ CondCount(a) <= 1
        /\ Occurrences(reads, a) <= 1

\* C8 (amended): the second and third conditions never hold together, and
\* the first holds together with another only for a name "main" of kind
\* "stack", "heap", "valloc" or "section"; a visited region other than the
\* GDT is read once per condition it satisfies (so such a region twice), no
\* region is read more often than that, and a section built twice is kept as
\* the later rule built it.
C8_OverlapOnlyForNameMain ==
    \A a \in DOMAIN mem :
        /\ \A e \in mem[a].entry :
              /\ ~(Cond2(e.kind, e.name) /\ Cond3(e.kind, e.name))
              /\ CondCount(a) >= 2 =>
                    /\ e.name = "main"
                    /\ e.kind \in {"stack", "heap", "valloc", "section"}
        /\ Occurrences(reads, a) <= CondCount(a)
        /\ (a \in Visited /\ a # GDT_ADDRESS) => Occurrences(reads, a) = CondCount(a)
        /\ \A i \in DOMAIN Sections :
              (Sections[i].address = a /\ CondCount(a) >= 2) =>
                  \E e \in mem[a].entry : Sections[i].name \in
                      {"stack_" \o e.name, e.kind \o "_" \o e.name}

C8_Witness ==
    \E a \in Visited : \E i \in DOMAIN Sections :
        /\ mem[a].entry = Entry("stack", "main")
        /\ Occurrences(reads, a) = 2
        /\ Sections[i].address = a
        /\ Sections[i].name = "stack_main"

\* C9: sections is in strictly ascending address order, so no region gives
\* more than one section, and every section is that of a visited region,
\* not the GDT, that satisfies an inclusion condition and that the noise/size
\* filter does not reject.
C9_OneSectionPerSurvivingRegion ==
    /\ \A i, j \in DOMAIN Sections :
          i < j => BLt(Sections[i].address, Sections[j].address)
    /\ \A i \in DOMAIN Sections :
          LET a == Sections[i].address
          IN  /\ a \in Visited
              /\ a \in Qualifying(DOMAIN mem)
              /\ ~Rejected(mem[a].data)
    /\ Len(Sections) <= Cardinality(Visited)

C9_Witness ==
    /\ Completed
    /\ Len(Sections) = 2
    /\ CondCount(Sections[1].address) = 2

\* C10 (as stated): the data emitted in every section is neither empty nor
\* all zero bytes.
C10_EmittedDataPassedFilter ==
    \A i \in DOMAIN Sections :
        /\ Emitted(i) # <<>>
        /\ ~AllZero(Emitted(i))

\* C10 (amended): the data read from the region of every section is neither
\* empty nor rejected by the filter (so not all zero bytes), and every
\* section other than a "main_heap" one emits exactly that data; a
\* "main_heap" section emits the truncated prefix, which the filter never
\* examines and which may be empty or all zero.
C10_RegionDataPassedFilter ==
    \A i \in DOMAIN Sections :
        LET a == Sections[i].address
        IN  /\ mem[a].data # <<>>
            /\ ~AllZero(mem[a].data)
            /\ ~Rejected(mem[a].data)
            /\ ~IsMainHeap(a) => Emitted(i) = mem[a].data

C10_Witness ==
    \E i \in DOMAIN Sections :
        /\ IsMainHeap(Sections[i].address)
        /\ Emitted(i) # <<>>
        /\ AllZero(Emitted(i))

====
